---- MODULE Spec2Model ----
(***************************************************************************)
(* Model of the staircase calculation engine LadderCalculator of           *)
(* src/Ladder_main.py.                                                     *)
(*                                                                         *)
(* Numbers.  Lengths are centimetres; every input is an integer.  A        *)
(* quotient such as height / steps is kept exactly, as a rational          *)
(* [n, d] with d > 0, and compared by cross multiplication.  round(x) and  *)
(* round(x, 2) are Python's round-half-to-even; round(x, 2) yields a       *)
(* rational over 100.  The inputs are finite numbers: NaN and the          *)
(* infinities are outside the model.                                       *)
(*                                                                         *)
(* Angles.  math.atan has no counterpart here, so a computed angle is the  *)
(* term [kind |-> "atan", n |-> height, d |-> length], standing for        *)
(* round(degrees(atan(height / length)), 2); a manual angle is             *)
(* [kind |-> "deg", n |-> degrees, d |-> 1].  Comparing a computed angle   *)
(* with a bound compares height / length with the tangent of the bound     *)
(* moved by the half hundredth that round(_, 2) absorbs; the tangents are  *)
(* given to six decimals, which separates every height / length with       *)
(* height <= 501 and length <= 1001.                                       *)
(*                                                                         *)
(* Optional values.  None is the empty tuple, a present value v is <<v>>.  *)
(*                                                                         *)
(* Exceptions.  An operator that models a method returns                   *)
(* [raised |-> FALSE, value |-> v] when the method returns v and           *)
(* [raised |-> TRUE, value |-> "ZeroDivisionError"] when it raises.        *)
(***************************************************************************)
EXTENDS Integers, Sequences, FiniteSets, TLC

VARIABLES calculator, pc, op, args, outcome, state, data, update

vars == <<calculator, pc, op, args, outcome, state, data, update>>

\* The call in progress on the calculator.
call == <<pc, op, args, outcome>>

\* The chat session: its dialogue state, its data, the last update handled.
chat == <<state, data, update>>

----------------------------------------------------------------------------
(* Optional values, rationals, rounding *)

None == <<>>

Some(v) == <<v>>

IsNone(x) == x = <<>>

Val(x) == x[1]

Rat(n, d) == [n |-> n, d |-> d]

RLt(a, b) == a.n * b.d < b.n * a.d

RLe(a, b) == a.n * b.d <= b.n * a.d

\* Python's round(n / d) for d > 0: to the nearest integer, ties to even.
PyRound(n, d) ==
    LET q == n \div d
        r == n % d
    IN  IF 2 * r < d THEN q
        ELSE IF 2 * r > d THEN q + 1
        ELSE IF q % 2 = 0 THEN q ELSE q + 1

\* Python's round(n / d, 2), as a rational over 100.
PyRound2(x) == Rat(PyRound(100 * x.n, x.d), 100)

\* n / d for d # 0, with the sign carried by the numerator.
RDiv(n, d) == IF d < 0 THEN Rat(-n, -d) ELSE Rat(n, d)

Raise(e) == [raised |-> TRUE, value |-> e]

Return(v) == [raised |-> FALSE, value |-> v]

----------------------------------------------------------------------------
(* LadderCalculator.__init__ *)

LadderCalculator ==
    [min_angle |-> 30, max_angle |-> 45,
     standard_step_width |-> 30, standard_step_height |-> 20,
     min_step_width |-> 25, min_step_height |-> 15, max_step_height |-> 25,
     min_ladder_width |-> 80]

----------------------------------------------------------------------------
(* Angles *)

TanScale == 1000000

\* tan(b - 0.005 degrees) * TanScale, rounded down: the least height / length
\* whose angle rounds to at least b.
TanRoundsUpTo(b) ==
    CASE b = 30 -> 577233
      [] b = 45 -> 999825

\* tan(b + 0.005 degrees) * TanScale, rounded up: the greatest height / length
\* whose angle rounds to at most b.
TanRoundsDownTo(b) ==
    CASE b = 30 -> 577467
      [] b = 45 -> 1000175

ManualAngle(a) == [kind |-> "deg", n |-> a, d |-> 1]

AtanAngle(height, length) == [kind |-> "atan", n |-> height, d |-> length]

\* bound <= angle
AngleGe(angle, bound) ==
    IF angle.kind = "deg" THEN bound * angle.d <= angle.n
    ELSE angle.n * TanScale >= TanRoundsUpTo(bound) * angle.d

\* angle <= bound
AngleLe(angle, bound) ==
    IF angle.kind = "deg" THEN angle.n <= bound * angle.d
    ELSE angle.n * TanScale <= TanRoundsDownTo(bound) * angle.d

\* Python truthiness of a number: the manual angle 0 is falsy; a computed
\* angle of a positive height is at least 0.06 degrees for length <= 1001.
AngleTruthy(angle) == angle.n # 0

calculate_angle(self, height, length, angle) ==
    IF ~IsNone(angle) THEN <<Some(ManualAngle(Val(angle))), "angle_manual">>
    ELSE IF length = 0 THEN <<None, "error_length_zero">>
    ELSE <<Some(AtanAngle(height, length)), "angle_computed">>

check_angle(self, angle) ==
    IF IsNone(angle) THEN "error_angle_undefined"
    ELSE IF AngleGe(Val(angle), self.min_angle) /\ AngleLe(Val(angle), self.max_angle)
         THEN "angle_fits"
         ELSE "angle_does_not_fit"

----------------------------------------------------------------------------
(* LadderCalculator.calculate_steps *)

StepsFailed(msg) ==
    Return([steps |-> None, msg |-> msg, actual_height |-> None, actual_width |-> None])

\* StepsResolved that returns the standard tread whatever the caller gave.
StepsResolved_StandardTread(steps, msg, actual_height, actual_width) ==
    Return([steps |-> Some(steps), msg |-> msg,
            actual_height |-> Some(actual_height), actual_width |-> Some(30)])

StepsResolved(steps, msg, actual_height, actual_width) ==
    Return([steps |-> Some(steps), msg |-> msg,
            actual_height |-> Some(actual_height), actual_width |-> Some(actual_width)])

calculate_steps(self, height, length, step_height, step_width) ==
    IF IsNone(step_height) /\ IsNone(step_width) THEN
        LET default_height ==
                IF ~(self.min_step_height <= self.standard_step_height
                     /\ self.standard_step_height <= self.max_step_height)
                THEN IF self.standard_step_height > self.max_step_height
                     THEN self.max_step_height
                     ELSE IF self.standard_step_height < self.min_step_height
                          THEN self.min_step_height
                          ELSE self.standard_step_height
                ELSE self.standard_step_height
            steps == PyRound(height, default_height)
        IN  IF steps = 0 THEN Raise("ZeroDivisionError")
            ELSE StepsResolved(steps, "steps_standard", RDiv(height, steps),
                               self.standard_step_width)
    ELSE IF ~IsNone(step_height) /\ IsNone(step_width) THEN
        LET sh == Val(step_height) IN
        IF sh <= 0 THEN StepsFailed("error_riser_not_positive")
        ELSE IF sh < self.min_step_height \/ sh > self.max_step_height
             THEN StepsFailed("error_riser_out_of_range")
        ELSE StepsResolved(PyRound(height, sh), "steps_riser_given", Rat(sh, 1),
                           self.standard_step_width)
    ELSE IF ~IsNone(step_width) /\ IsNone(step_height) THEN
        LET sw == Val(step_width) IN
        IF sw <= 0 THEN StepsFailed("error_tread_not_positive")
        ELSE IF sw < self.min_step_width THEN StepsFailed("error_tread_too_narrow")
        ELSE IF self.min_step_height <= self.standard_step_height
                /\ self.standard_step_height <= self.max_step_height
             THEN StepsResolved(PyRound(height, self.standard_step_height),
                                "steps_tread_given_standard_riser",
                                Rat(self.standard_step_height, 1), sw)
             ELSE StepsResolved(PyRound(height, self.standard_step_height),
                                "steps_tread_given",
                                Rat(self.standard_step_height, 1), sw)
    ELSE
        LET sh == Val(step_height)
            sw == Val(step_width)
        IN  IF sh <= 0 \/ sw <= 0 THEN StepsFailed("error_parameters_not_positive")
            ELSE IF sh < self.min_step_height \/ sh > self.max_step_height
                 THEN StepsFailed("error_riser_out_of_range")
            ELSE IF sw < self.min_step_width THEN StepsFailed("error_tread_too_narrow")
            ELSE StepsResolved(PyRound(height, sh), "steps_both_given", Rat(sh, 1), sw)

----------------------------------------------------------------------------
(* LadderCalculator.calculate_length, calculate_parts, validate_inputs *)

\* The stringer length stays a term: length / cos(angle), or the hypotenuse.
\* cos of a finite float is never exactly 0, so neither branch raises.
calculate_length(self, height, length, angle) ==
    IF ~IsNone(angle)
    THEN <<Some(<<"length_over_cos", length, Val(angle)>>), "length_by_angle">>
    ELSE <<Some(<<"hypot", height, length>>), "length_by_pythagoras">>

calculate_parts(self, steps, ladder_type) ==
    LET lt == IF ladder_type \notin {1, 2, 3} THEN 1 ELSE ladder_type IN
    [treads |-> steps,
     risers |-> steps,
     stringers |-> IF lt = 1 THEN 2 ELSE 1,
     balusters |-> steps + 2,
     handrails |-> 2,
     landings |-> IF lt \in {2, 3} THEN 1 ELSE 0,
     winder_treads |-> IF lt \in {2, 3} THEN 2 ELSE 0]

\* validate_inputs that lets a height of 0 pass.
validate_inputs_ZeroHeightPasses(self, height, length, width) ==
    (IF height < 0 THEN <<"height_not_positive">> ELSE <<>>)
    \o (IF length <= 0 THEN <<"length_not_positive">> ELSE <<>>)
    \o (IF height > 500 THEN <<"height_too_large">> ELSE <<>>)
    \o (IF length > 1000 THEN <<"length_too_large">> ELSE <<>>)
    \o (IF ~IsNone(width) /\ Val(width) < self.min_ladder_width
        THEN <<"width_too_small">> ELSE <<>>)

\* The "; "-joined message is the sequence of its parts; "" is <<>>.
validate_inputs(self, height, length, width) ==
    (IF height <= 0 THEN <<"height_not_positive">> ELSE <<>>)
    \o (IF length <= 0 THEN <<"length_not_positive">> ELSE <<>>)
    \o (IF height > 500 THEN <<"height_too_large">> ELSE <<>>)
    \o (IF length > 1000 THEN <<"length_too_large">> ELSE <<>>)
    \o (IF ~IsNone(width) /\ Val(width) < self.min_ladder_width
        THEN <<"width_too_small">> ELSE <<>>)

----------------------------------------------------------------------------
(* LadderCalculator.check_installation_feasibility *)

\* Lines 205-211.
AngleIssue(self, angle) ==
    IF IsNone(angle) THEN <<"angle_undefined">>
    ELSE IF ~(AngleGe(Val(angle), self.min_angle) /\ AngleLe(Val(angle), self.max_angle))
         THEN <<"angle_out_of_range">>
         ELSE <<>>

\* Lines 216-221.
RiserIssue(self, step_height) ==
    IF RLt(step_height, Rat(self.min_step_height, 1)) THEN <<"riser_too_low">>
    ELSE IF RLt(Rat(self.max_step_height, 1), step_height) THEN <<"riser_too_high">>
    ELSE <<>>

\* Lines 223-225.
TreadIssue(self, step_width) ==
    IF step_width < self.min_step_width THEN <<"tread_too_narrow">> ELSE <<>>

\* StepCountIssues with the upper limit off by one.
StepCountIssues_UpperOffByOne(steps) ==
    (IF steps < 3 THEN <<"too_few_steps">> ELSE <<>>)
    \o (IF steps > 26 THEN <<"too_many_steps">> ELSE <<>>)

\* Lines 227-233.
StepCountIssues(steps) ==
    (IF steps < 3 THEN <<"too_few_steps">> ELSE <<>>)
    \o (IF steps > 25 THEN <<"too_many_steps">> ELSE <<>>)

\* Lines 235-237.
OpeningWidthIssue(self, width) ==
    IF ~IsNone(width) /\ Val(width) < self.min_ladder_width
    THEN <<"opening_too_narrow">> ELSE <<>>

\* ProjectionIssue that also rejects a projection equal to the length.
ProjectionIssue_Strict(horizontal_projection, length) ==
    IF horizontal_projection >= length THEN <<"does_not_fit_length">> ELSE <<>>

\* Lines 239-242.
ProjectionIssue(horizontal_projection, length) ==
    IF horizontal_projection > length THEN <<"does_not_fit_length">> ELSE <<>>

\* Lines 245-252.
FeasibilityWarnings(step_height, step_width) ==
    (IF RLt(step_height, Rat(17, 1)) THEN <<"riser_near_lower_comfort_bound">>
     ELSE IF RLt(Rat(23, 1), step_height) THEN <<"riser_near_upper_comfort_bound">>
     ELSE <<>>)
    \o (IF step_width < 28 THEN <<"tread_near_minimum">>
        ELSE IF step_width > 35 THEN <<"tread_wider_than_standard">>
        ELSE <<>>)

\* check_installation_feasibility that stops at the first hard check violated.
check_installation_feasibility_ShortCircuit(self, height, length, width, angle, steps, step_width, step_height, horizontal_projection) ==
    IF IsNone(steps) \/ Val(steps) = 0 THEN
        [possible |-> FALSE, issues |-> <<"steps_not_calculated">>, warnings |-> <<>>]
    ELSE IF IsNone(step_width) \/ IsNone(step_height)
            \/ Val(step_width) <= 0 \/ RLe(Val(step_height), Rat(0, 1)) THEN
        [possible |-> FALSE, issues |-> <<"step_parameters_not_calculated">>, warnings |-> <<>>]
    ELSE
        LET issues ==
                AngleIssue(self, angle)
                \o RiserIssue(self, Val(step_height))
                \o TreadIssue(self, Val(step_width))
                \o StepCountIssues(Val(steps))
                \o OpeningWidthIssue(self, width)
                \o ProjectionIssue(horizontal_projection, length)
        IN  [possible |-> issues = <<>>,
             issues |-> IF issues = <<>> THEN <<>> ELSE <<Head(issues)>>,
             warnings |-> FeasibilityWarnings(Val(step_height), Val(step_width))]

\* Every hard check appends its issue and sets possible to False, so possible
\* is True at the end exactly when no issue was appended.
check_installation_feasibility(self, height, length, width, angle, steps, step_width, step_height, horizontal_projection) ==
    IF IsNone(steps) \/ Val(steps) = 0 THEN
        [possible |-> FALSE, issues |-> <<"steps_not_calculated">>, warnings |-> <<>>]
    ELSE IF IsNone(step_width) \/ IsNone(step_height)
            \/ Val(step_width) <= 0 \/ RLe(Val(step_height), Rat(0, 1)) THEN
        [possible |-> FALSE, issues |-> <<"step_parameters_not_calculated">>, warnings |-> <<>>]
    ELSE
        LET issues ==
                AngleIssue(self, angle)
                \o RiserIssue(self, Val(step_height))
                \o TreadIssue(self, Val(step_width))
                \o StepCountIssues(Val(steps))
                \o OpeningWidthIssue(self, width)
                \o ProjectionIssue(horizontal_projection, length)
        IN  [possible |-> issues = <<>>,
             issues |-> issues,
             warnings |-> FeasibilityWarnings(Val(step_height), Val(step_width))]

----------------------------------------------------------------------------
(* LadderCalculator.calculate_ladder_footprint *)

\* calculate_ladder_footprint with the factors of the straight flight swapped
\* in sign: (1 - steps) * step_width.
calculate_ladder_footprint_SwappedSign(self, steps, step_width, ladder_type) ==
    IF steps <= 0 \/ step_width <= 0 THEN [error |-> "bad_footprint_parameters"]
    ELSE IF ladder_type = 2 THEN
        LET half == steps \div 2
            section_steps == IF half > 1 THEN half ELSE 1
        IN  [message |-> "footprint_calculated",
             horizontal_projection |-> 2 * ((section_steps - 1) * step_width) + 100,
             width_required |-> 120,
             description |-> "u_shaped"]
    ELSE IF ladder_type = 3 THEN
        [message |-> "footprint_calculated",
         horizontal_projection |-> (steps - 1) * step_width + 80,
         width_required |-> 100,
         description |-> "l_shaped"]
    ELSE
        [message |-> "footprint_calculated",
         horizontal_projection |-> (1 - steps) * step_width,
         width_required |-> 80,
         description |-> IF ladder_type = 1 THEN "straight" ELSE "straight_by_default"]

calculate_ladder_footprint(self, steps, step_width, ladder_type) ==
    IF steps <= 0 \/ step_width <= 0 THEN [error |-> "bad_footprint_parameters"]
    ELSE IF ladder_type = 1 THEN
        [message |-> "footprint_calculated",
         horizontal_projection |-> (steps - 1) * step_width,
         width_required |-> 80,
         description |-> "straight"]
    ELSE IF ladder_type = 2 THEN
        LET half == steps \div 2
            section_steps == IF half > 1 THEN half ELSE 1
        IN  [message |-> "footprint_calculated",
             horizontal_projection |-> 2 * ((section_steps - 1) * step_width) + 100,
             width_required |-> 120,
             description |-> "u_shaped"]
    ELSE IF ladder_type = 3 THEN
        [message |-> "footprint_calculated",
         horizontal_projection |-> (steps - 1) * step_width + 80,
         width_required |-> 100,
         description |-> "l_shaped"]
    ELSE
        [message |-> "footprint_calculated",
         horizontal_projection |-> (steps - 1) * step_width,
         width_required |-> 80,
         description |-> "straight_by_default"]

----------------------------------------------------------------------------
(* LadderCalculator.suggest_optimal_parameters *)

\* 'substring in message' of line 334: which messages contain the substring.
MessageContainsStandard(msg) == msg \in {"suggestions_default", "standard_solution_found"}

Has(dict, key) == key \in DOMAIN dict

RECURSIVE ScanBest_FirstFit(_, _, _, _, _)
\* ScanBest that stops at the first eligible step count.
ScanBest_FirstFit(self, height, available_length, steps, best) ==
    IF steps > 25 THEN best
    ELSE
        LET step_height == RDiv(height, steps)
            step_width == self.standard_step_width
            horizontal_projection == (steps - 1) * step_width
            eligible == /\ RLe(Rat(self.min_step_height, 1), step_height)
                        /\ RLe(step_height, Rat(self.max_step_height, 1))
                        /\ horizontal_projection <= available_length
        IN  IF eligible
            THEN <<steps, Some([steps |-> steps,
                                height |-> PyRound2(step_height),
                                width |-> step_width,
                                projection |-> horizontal_projection])>>
            ELSE ScanBest_FirstFit(self, height, available_length, steps + 1, best)

RECURSIVE ScanBest(_, _, _, _, _)
\* The for loop of lines 317-331 from 'steps' on; best is <<max_steps, best_params>>.
ScanBest(self, height, available_length, steps, best) ==
    IF steps > 25 THEN best
    ELSE
        LET step_height == RDiv(height, steps)
            step_width == self.standard_step_width
            horizontal_projection == (steps - 1) * step_width
            eligible == /\ RLe(Rat(self.min_step_height, 1), step_height)
                        /\ RLe(step_height, Rat(self.max_step_height, 1))
                        /\ horizontal_projection <= available_length
                        /\ steps > best[1]
            next == IF eligible
                    THEN <<steps, Some([steps |-> steps,
                                        height |-> PyRound2(step_height),
                                        width |-> step_width,
                                        projection |-> horizontal_projection])>>
                    ELSE best
        IN  ScanBest(self, height, available_length, steps + 1, next)

\* AttachMinimum that looks at the standard option only.
AttachMinimum_IgnoresBest(self, height, suggestions) ==
    IF ~Has(suggestions, "standard_option") THEN
        LET r == PyRound(height, self.max_step_height)
            min_steps == IF r > 3 THEN r ELSE 3
            min_width == self.standard_step_width
        IN  [k \in (DOMAIN suggestions) \ {"message"} |-> suggestions[k]]
            @@ [message |-> "minimum_parameters_recommended",
                minimum_option |-> [steps |-> min_steps,
                                    height |-> PyRound2(RDiv(height, min_steps)),
                                    width |-> min_width,
                                    projection |-> (min_steps - 1) * min_width]]
    ELSE suggestions

\* Lines 337-349.
AttachMinimum(self, height, suggestions) ==
    IF ~Has(suggestions, "standard_option") /\ ~Has(suggestions, "best_option") THEN
        LET r == PyRound(height, self.max_step_height)
            min_steps == IF r > 3 THEN r ELSE 3
            min_width == self.standard_step_width
        IN  [k \in (DOMAIN suggestions) \ {"message"} |-> suggestions[k]]
            @@ [message |-> "minimum_parameters_recommended",
                minimum_option |-> [steps |-> min_steps,
                                    height |-> PyRound2(RDiv(height, min_steps)),
                                    width |-> min_width,
                                    projection |-> (min_steps - 1) * min_width]]
    ELSE suggestions

\* Lines 332-335.
AttachBest(self, suggestions, best, std_steps) ==
    IF ~IsNone(best[2]) /\ (best[1] # std_steps \/ ~Has(suggestions, "standard_option")) THEN
        LET withBest == suggestions @@ [best_option |-> Val(best[2])] IN
        IF ~Has(withBest, "message") \/ ~MessageContainsStandard(withBest.message)
        THEN [k \in (DOMAIN withBest) \ {"message"} |-> withBest[k]]
             @@ [message |-> "fitting_parameters_found"]
        ELSE withBest
    ELSE suggestions

\* StandardOption without the riser range test.
StandardOption_NoRiserCheck(self, height, available_length, std_steps) ==
    LET std_actual_height == RDiv(height, std_steps)
        std_width == self.standard_step_width
        std_projection == (std_steps - 1) * std_width
    IN  IF std_projection <= available_length
        THEN [message |-> "standard_solution_found",
              standard_option |-> [note |-> "recommended_standard",
                                   steps |-> std_steps,
                                   height |-> PyRound2(std_actual_height),
                                   width |-> std_width,
                                   projection |-> std_projection,
                                   will_fit |-> TRUE]]
        ELSE [message |-> "suggestions_default"]

\* Lines 298-311: the suggestions after the standard tier.
StandardOption(self, height, available_length, std_steps) ==
    LET std_actual_height == RDiv(height, std_steps)
        std_width == self.standard_step_width
        std_projection == (std_steps - 1) * std_width
    IN  IF /\ std_projection <= available_length
           /\ RLe(Rat(self.min_step_height, 1), std_actual_height)
           /\ RLe(std_actual_height, Rat(self.max_step_height, 1))
        THEN [message |-> "standard_solution_found",
              standard_option |-> [note |-> "recommended_standard",
                                   steps |-> std_steps,
                                   height |-> PyRound2(std_actual_height),
                                   width |-> std_width,
                                   projection |-> std_projection,
                                   will_fit |-> TRUE]]
        ELSE [message |-> "suggestions_default"]

suggest_optimal_parameters(self, height, available_length, available_width) ==
    LET std_steps == PyRound(height, self.standard_step_height) IN
    IF std_steps = 0 THEN Raise("ZeroDivisionError")
    ELSE
        LET s1 == StandardOption(self, height, available_length, std_steps)
            best == ScanBest(self, height, available_length, 3, <<0, None>>)
            s2 == AttachBest(self, s1, best, std_steps)
        IN  Return(AttachMinimum(self, height, s2))

----------------------------------------------------------------------------
(* LadderCalculator.calculate_all *)

\* 'x or 0' of lines 427-428.
AngleOrZero(angle) ==
    IF IsNone(angle) \/ ~AngleTruthy(Val(angle)) THEN Some(ManualAngle(0)) ELSE angle

IntOrZero(x) == IF IsNone(x) THEN Some(0) ELSE x

RatOrZero(x) == IF IsNone(x) THEN Some(Rat(0, 1)) ELSE x

\* FinishResult that attaches no suggestions.
FinishResult_NoSuggestions(self, result, feasibility, steps, height, length, width, ladder_type) ==
    Return(result @@ [parts |-> calculate_parts(self, steps, ladder_type)])

\* Lines 433-443: the suggestions of an infeasible result, then the parts.
FinishResult(self, result, feasibility, steps, height, length, width, ladder_type) ==
    LET parts == [parts |-> calculate_parts(self, steps, ladder_type)] IN
    IF ~feasibility.possible THEN
        LET sg == suggest_optimal_parameters(self, height, length, width) IN
        IF sg.raised THEN sg
        ELSE Return(result @@ [suggestions |-> sg.value] @@ parts)
    ELSE Return(result @@ parts)

\* Lines 403-430: steps, ladder length, footprint and feasibility.
ResolvedStages(self, result, calculated_angle, st, height, length, width, ladder_type) ==
    LET steps == Val(st.steps)
        actual_height == Val(st.actual_height)
        actual_width == Val(st.actual_width)
        r2 == result @@
              [steps |-> [count |-> steps,
                          message |-> st.msg,
                          actual_height |-> IF actual_height.n # 0
                                            THEN Some(PyRound2(actual_height)) ELSE None,
                          actual_width |-> IF actual_width # 0
                                           THEN Some(actual_width) ELSE None]]
        ll == calculate_length(self, height, length, calculated_angle)
        r3 == r2 @@ [ladder_length |-> [value |-> ll[1], message |-> ll[2]]]
        hasFootprint == steps # 0 /\ actual_width # 0
        footprint == calculate_ladder_footprint(self, steps, actual_width, ladder_type)
        r4 == IF hasFootprint THEN r3 @@ [footprint |-> footprint] ELSE r3
        horizontal_projection ==
            IF hasFootprint /\ Has(footprint, "horizontal_projection")
            THEN footprint.horizontal_projection ELSE 0
        feasibility ==
            check_installation_feasibility(self, height, length, width,
                AngleOrZero(calculated_angle), IntOrZero(st.steps),
                IntOrZero(st.actual_width), RatOrZero(st.actual_height),
                horizontal_projection)
        r5 == r4 @@ [feasibility |-> feasibility]
    IN  FinishResult(self, r5, feasibility, steps, height, length, width, ladder_type)

calculate_all(self, height, length, width, angle, step_height, step_width, ladder_type) ==
    LET validation_error == validate_inputs(self, height, length, width) IN
    IF validation_error # <<>> THEN Return([error |-> validation_error])
    ELSE
        LET ca == calculate_angle(self, height, length, angle)
            calculated_angle == ca[1]
            result ==
                [inputs |-> [height |-> height, length |-> length, width |-> width,
                             angle |-> angle, step_height |-> step_height,
                             step_width |-> step_width, ladder_type |-> ladder_type],
                 warnings |-> <<>>,
                 angle |-> [value |-> calculated_angle,
                            message |-> ca[2],
                            status |-> check_angle(self, calculated_angle)]]
            st == calculate_steps(self, height, length, step_height, step_width)
        IN  IF st.raised THEN st
            ELSE IF IsNone(st.value.steps) THEN
                LET sg == suggest_optimal_parameters(self, height, length, width) IN
                IF sg.raised THEN sg
                ELSE Return(result @@ [error |-> st.value.msg, suggestions |-> sg.value])
            ELSE ResolvedStages(self, result, calculated_angle, st.value,
                                height, length, width, ladder_type)

----------------------------------------------------------------------------
(* Inputs of the calls *)

\* calculate_all is called with every height up to MaxSmallHeight (where the
\* step count is 0, 1 or 2) and with a few larger ones.
MaxSmallHeight == 31

\* calculate_steps alone is called with every height up to MaxStepsHeight.
MaxStepsHeight == 60

\* suggest_optimal_parameters alone is called with every height up to
\* MaxSuggestHeight and the lengths 0, LengthStep, ..., MaxLengthSteps * LengthStep.
MaxSuggestHeight == 130

LengthStep == 30

MaxLengthSteps == 7

Opt(S) == {None} \cup {Some(v) : v \in S}

Heights == (-1 .. MaxSmallHeight) \cup {50, 260, 270, 300, 500, 501}

Lengths == {0, 100, 150, 389, 390, 400, 1000, 1001}

Widths == Opt({79, 100})

AngleOverrides == Opt({0, 40})

RiserOverrides == Opt({0, 14, 20, 26})

TreadOverrides == Opt({0, 24, 36})

LadderTypes == {1, 2, 3, 4}

StepsHeights == (-1 .. MaxStepsHeight) \cup {270, 500}

StepsRisers == Opt({-1, 0, 14, 15, 20, 25, 26})

StepsTreads == Opt({-1, 0, 24, 25, 30})

SuggestHeights == (-1 .. MaxSuggestHeight) \cup {270, 500}

SuggestLengths == {k * LengthStep : k \in 0 .. MaxLengthSteps} \cup {389, 390, 1000}

FeasLengths == {100, 390}

FeasWidths == Opt({79, 80})

FeasAngles ==
    Opt({ManualAngle(a) : a \in {29, 30, 45, 46}} \cup {AtanAngle(270, 400), AtanAngle(300, 150)})

FeasSteps == Opt({0, 2, 3, 25, 26})

FeasStepWidths == Opt({0, 24, 25, 36})

FeasStepHeights == Opt({Rat(0, 1), Rat(14, 1), Rat(15, 1), Rat(25, 1), Rat(26, 1), Rat(270, 14)})

FeasProjections == {100, 391}

\* Inputs of calculate_ladder_footprint called on its own.
MaxFootprintSteps == 30

FootprintSteps == -1 .. MaxFootprintSteps

FootprintStepWidths == {0, 25, 30, 36}


----------------------------------------------------------------------------
(* The state machine: one calculator instance, called by one caller *)

NoCall == [method |-> "none"]

\* A session without data: state.clear() leaves no key.
NoData == [ladder_type |-> None, height |-> None, length |-> None]

\* No update handled yet.
NoUpdate == [text |-> None, state_before |-> "none", handler |-> "none",
             replies |-> <<>>, raised |-> None]

Init ==
    /\ calculator = LadderCalculator
    /\ pc = "idle"
    /\ op = "none"
    /\ args = NoCall
    /\ outcome = NoCall
    /\ state = "none"
    /\ data = NoData
    /\ update = NoUpdate

\* CalculateAll that keeps a supplied riser as the instance's standard riser.
CalculateAll_WritesConfig ==
    /\ pc = "idle"
    /\ \E height \in Heights, length \in Lengths, width \in Widths,
          angle \in AngleOverrides, step_height \in RiserOverrides,
          step_width \in TreadOverrides, ladder_type \in LadderTypes :
            /\ args' = [height |-> height, length |-> length, width |-> width,
                        angle |-> angle, step_height |-> step_height,
                        step_width |-> step_width, ladder_type |-> ladder_type]
            /\ outcome' = calculate_all(calculator, height, length, width, angle,
                                        step_height, step_width, ladder_type)
            /\ calculator' = [calculator EXCEPT !.standard_step_height =
                                 IF IsNone(step_height) THEN @ ELSE Val(step_height)]
    /\ op' = "calculate_all"
    /\ pc' = "done"
    /\ UNCHANGED chat

\* calculator.calculate_all(...), as width_entered calls it (line 673).
CalculateAll ==
    /\ pc = "idle"
    /\ \E height \in Heights, length \in Lengths, width \in Widths,
          angle \in AngleOverrides, step_height \in RiserOverrides,
          step_width \in TreadOverrides, ladder_type \in LadderTypes :
            /\ args' = [height |-> height, length |-> length, width |-> width,
                        angle |-> angle, step_height |-> step_height,
                        step_width |-> step_width, ladder_type |-> ladder_type]
            /\ outcome' = calculate_all(calculator, height, length, width, angle,
                                        step_height, step_width, ladder_type)
    /\ op' = "calculate_all"
    /\ pc' = "done"
    /\ UNCHANGED <<calculator, chat>>

\* calculator.calculate_steps(...) called on its own.
CalculateSteps ==
    /\ pc = "idle"
    /\ \E height \in StepsHeights, step_height \in StepsRisers, step_width \in StepsTreads :
            /\ args' = [height |-> height, length |-> 400,
                        step_height |-> step_height, step_width |-> step_width]
            /\ outcome' = calculate_steps(calculator, height, 400, step_height, step_width)
    /\ op' = "calculate_steps"
    /\ pc' = "done"
    /\ UNCHANGED <<calculator, chat>>

\* calculator.check_installation_feasibility(...) called on its own.
CheckFeasibility ==
    /\ pc = "idle"
    /\ \E length \in FeasLengths, width \in FeasWidths, angle \in FeasAngles,
          steps \in FeasSteps, step_width \in FeasStepWidths,
          step_height \in FeasStepHeights, horizontal_projection \in FeasProjections :
            /\ args' = [height |-> 270, length |-> length, width |-> width,
                        angle |-> angle, steps |-> steps, step_width |-> step_width,
                        step_height |-> step_height,
                        horizontal_projection |-> horizontal_projection]
            /\ outcome' = Return(check_installation_feasibility(calculator, 270, length,
                                     width, angle, steps, step_width, step_height,
                                     horizontal_projection))
    /\ op' = "check_installation_feasibility"
    /\ pc' = "done"
    /\ UNCHANGED <<calculator, chat>>

\* calculator.suggest_optimal_parameters(...) called on its own.
Suggest ==
    /\ pc = "idle"
    /\ \E height \in SuggestHeights, available_length \in SuggestLengths :
            /\ args' = [height |-> height, available_length |-> available_length,
                        available_width |-> None]
            /\ outcome' = suggest_optimal_parameters(calculator, height,
                                                     available_length, None)
    /\ op' = "suggest_optimal_parameters"
    /\ pc' = "done"
    /\ UNCHANGED <<calculator, chat>>

\* calculator.calculate_ladder_footprint(...) called on its own.
Footprint ==
    /\ pc = "idle"
    /\ \E steps \in FootprintSteps, step_width \in FootprintStepWidths,
          ladder_type \in LadderTypes :
            /\ args' = [steps |-> steps, step_width |-> step_width,
                        ladder_type |-> ladder_type]
            /\ outcome' = Return(calculate_ladder_footprint(calculator, steps,
                                                            step_width, ladder_type))
    /\ op' = "calculate_ladder_footprint"
    /\ pc' = "done"
    /\ UNCHANGED <<calculator, chat>>

\* The caller is done with the result (lines 681-686): the next call can start.
Release ==
    /\ pc = "done"
    /\ pc' = "idle"
    /\ op' = "none"
    /\ args' = NoCall
    /\ outcome' = NoCall
    /\ UNCHANGED <<calculator, chat>>

Next ==
    \/ CalculateAll
    \/ CalculateSteps
    \/ CheckFeasibility
    \/ Suggest
    \/ Footprint
    \/ Release

Spec == Init /\ [][Next]_vars

----------------------------------------------------------------------------
(* The chat dialogue (lines 566-703).  Message texts are written in Latin  *)
(* letters: "Otmena" is the text of the cancel button, "Pryamaya",         *)
(* "P-obraznaya" and "G-obraznaya" are the texts of the three layout       *)
(* buttons.  A message without text (a photo, a sticker) has text None.    *)
(* The replies are tags; format_result is not modelled: whether it returns *)
(* or raises, width_entered leaves the session cleared in                  *)
(* choosing_stair_type.                                                    *)

StartText == "/start"

CancelText == "Otmena"

TYPE_MAPPING == ("Pryamaya" :> 1) @@ ("P-obraznaya" :> 2) @@ ("G-obraznaya" :> 3)

\* The texts float() accepts, with their values; float() raises ValueError on
\* every other text of the model.
FloatOf ==
    ("-5" :> -5) @@ ("0" :> 0) @@ ("5" :> 5) @@ ("79" :> 79) @@ ("270" :> 270)
    @@ ("400" :> 400) @@ ("501" :> 501) @@ ("1001" :> 1001)

\* float(message.text.replace(',', '.')): AttributeError without a text.
ParseFloat(text) ==
    IF IsNone(text) THEN [raised |-> TRUE, value |-> "AttributeError"]
    ELSE IF Val(text) \in DOMAIN FloatOf THEN Return(FloatOf[Val(text)])
    ELSE [raised |-> TRUE, value |-> "ValueError"]

\* The messages a user sends.
Messages ==
    Opt({StartText, CancelText, "abc"} \cup DOMAIN TYPE_MAPPING \cup DOMAIN FloatOf)

DialogueStates ==
    {"choosing_stair_type", "entering_height", "entering_length", "entering_width"}

\* The handler that takes a message: the first one, in the order of
\* registration, whose filter matches.
Dispatch(text, current) ==
    IF text = Some(StartText) THEN "cmd_start"
    ELSE IF current = "choosing_stair_type" THEN "stair_type_chosen"
    ELSE IF current = "entering_height" THEN "height_entered"
    ELSE IF current = "entering_length" THEN "length_entered"
    ELSE IF current = "entering_width" THEN "width_entered"
    ELSE IF text = Some(CancelText) THEN "cancel_handler"
    ELSE "none"

\* The record of an update that a handler took and answered.
Handled(text, handler, replies) ==
    [text |-> text, state_before |-> state, handler |-> handler,
     replies |-> replies, raised |-> None]

\* The record of an update whose handler ended in an uncaught exception.
Failed(text, handler, exception) ==
    [text |-> text, state_before |-> state, handler |-> handler,
     replies |-> <<>>, raised |-> Some(exception)]

cmd_start ==
    \E text \in Messages :
        /\ Dispatch(text, state) = "cmd_start"
        /\ data' = NoData
        /\ state' = "choosing_stair_type"
        /\ update' = Handled(text, "cmd_start", <<"welcome_choose_type">>)
        /\ UNCHANGED <<calculator, call>>

stair_type_chosen ==
    \E text \in Messages :
        /\ Dispatch(text, state) = "stair_type_chosen"
        /\ IF IsNone(text) \/ Val(text) \notin DOMAIN TYPE_MAPPING
           THEN /\ update' = Handled(text, "stair_type_chosen", <<"choose_type_from_list">>)
                /\ UNCHANGED <<state, data>>
           ELSE /\ data' = [data EXCEPT !.ladder_type = Some(TYPE_MAPPING[Val(text)])]
                /\ state' = "entering_height"
                /\ update' = Handled(text, "stair_type_chosen", <<"enter_height">>)
        /\ UNCHANGED <<calculator, call>>

height_entered ==
    \E text \in Messages :
        /\ Dispatch(text, state) = "height_entered"
        /\ LET height == ParseFloat(text) IN
           IF height.raised /\ height.value = "ValueError"
           THEN /\ update' = Handled(text, "height_entered", <<"enter_a_number">>)
                /\ UNCHANGED <<state, data>>
           ELSE IF height.raised
           THEN /\ update' = Failed(text, "height_entered", height.value)
                /\ UNCHANGED <<state, data>>
           ELSE IF height.value <= 0
           THEN /\ update' = Handled(text, "height_entered", <<"height_must_be_positive">>)
                /\ UNCHANGED <<state, data>>
           ELSE IF height.value > 500
           THEN /\ update' = Handled(text, "height_entered", <<"height_too_large">>)
                /\ UNCHANGED <<state, data>>
           ELSE /\ data' = [data EXCEPT !.height = Some(height.value)]
                /\ state' = "entering_length"
                /\ update' = Handled(text, "height_entered", <<"enter_length">>)
        /\ UNCHANGED <<calculator, call>>

length_entered ==
    \E text \in Messages :
        /\ Dispatch(text, state) = "length_entered"
        /\ LET length == ParseFloat(text) IN
           IF length.raised /\ length.value = "ValueError"
           THEN /\ update' = Handled(text, "length_entered", <<"enter_a_number">>)
                /\ UNCHANGED <<state, data>>
           ELSE IF length.raised
           THEN /\ update' = Failed(text, "length_entered", length.value)
                /\ UNCHANGED <<state, data>>
           ELSE IF length.value <= 0
           THEN /\ update' = Handled(text, "length_entered", <<"length_must_be_positive">>)
                /\ UNCHANGED <<state, data>>
           ELSE IF length.value > 1000
           THEN /\ update' = Handled(text, "length_entered", <<"length_too_large">>)
                /\ UNCHANGED <<state, data>>
           ELSE /\ data' = [data EXCEPT !.length = Some(length.value)]
                /\ state' = "entering_width"
                /\ update' = Handled(text, "length_entered", <<"enter_width">>)
        /\ UNCHANGED <<calculator, call>>

\* What width_entered computes once the width is accepted: KeyError on a
\* missing key of the session data, else the outcome of calculate_all.
WidthResult(width) ==
    IF IsNone(data.height) \/ IsNone(data.length) \/ IsNone(data.ladder_type)
    THEN [raised |-> TRUE, value |-> "KeyError"]
    ELSE calculate_all(calculator, Val(data.height), Val(data.length), Some(width),
                       None, None, None, Val(data.ladder_type))

width_entered ==
    \E text \in Messages :
        /\ Dispatch(text, state) = "width_entered"
        /\ LET width == ParseFloat(text) IN
           IF width.raised /\ width.value = "ValueError"
           THEN /\ update' = Handled(text, "width_entered", <<"enter_a_number">>)
                /\ UNCHANGED <<state, data>>
           ELSE IF ~width.raised /\ width.value <= 0
           THEN /\ update' = Handled(text, "width_entered", <<"width_must_be_positive">>)
                /\ UNCHANGED <<state, data>>
           ELSE IF ~width.raised /\ width.value > 1000
           THEN /\ update' = Handled(text, "width_entered", <<"width_too_large">>)
                /\ UNCHANGED <<state, data>>
           ELSE /\ data' = NoData
                /\ state' = "choosing_stair_type"
                /\ update' = Handled(text, "width_entered",
                       IF width.raised \/ WidthResult(width.value).raised
                       THEN <<"calculation_error", "start_again">>
                       ELSE <<"result">>)
        /\ UNCHANGED <<calculator, call>>

cancel_handler ==
    \E text \in Messages :
        /\ Dispatch(text, state) = "cancel_handler"
        /\ data' = NoData
        /\ state' = "choosing_stair_type"
        /\ update' = Handled(text, "cancel_handler", <<"cancelled_start_again">>)
        /\ UNCHANGED <<calculator, call>>

\* No filter matches: the update is dropped.
Unhandled ==
    \E text \in Messages :
        /\ Dispatch(text, state) = "none"
        /\ update' = Handled(text, "none", <<>>)
        /\ UNCHANGED <<calculator, call, state, data>>

NextChat ==
    \/ cmd_start
    \/ stair_type_chosen
    \/ height_entered
    \/ length_entered
    \/ width_entered
    \/ cancel_handler
    \/ Unhandled

SpecChat == Init /\ [][NextChat]_vars

----------------------------------------------------------------------------
(* What the properties speak of *)

Called(method) == pc = "done" /\ op = method

Returned(method) == Called(method) /\ ~outcome.raised

\* The opening passes input validation, as the input bounds state it.
ValidOpening ==
    /\ 0 < args.height /\ args.height <= 500
    /\ 0 < args.length /\ args.length <= 1000
    /\ (IsNone(args.width) \/ Val(args.width) >= 80)

InRange(x, lo, hi) == RLe(Rat(lo, 1), x) /\ RLe(x, Rat(hi, 1))

AngleInRange(angle) == AngleGe(angle, 30) /\ AngleLe(angle, 45)

----------------------------------------------------------------------------
(* C1: every call of calculate_all whose height, length and width pass     *)
(* input validation returns a result structure, whatever the overrides     *)
(* and the layout; it never ends in an uncaught exception.                 *)
C1_ValidCallReturns ==
    (Called("calculate_all") /\ ValidOpening) => ~outcome.raised

(* C2: check_installation_feasibility never reports possible = True while  *)
(* a hard check is violated: possible implies an angle in [30, 45], a      *)
(* riser in [15, 25], a tread of at least 25, 3 to 25 steps, an opening    *)
(* width absent or at least 80, and a projection within the length.        *)
C2_PossibleImpliesHardChecks ==
    (Returned("check_installation_feasibility") /\ outcome.value.possible) =>
        /\ ~IsNone(args.angle) /\ AngleInRange(Val(args.angle))
        /\ ~IsNone(args.step_height) /\ InRange(Val(args.step_height), 15, 25)
        /\ ~IsNone(args.step_width) /\ Val(args.step_width) >= 25
        /\ ~IsNone(args.steps) /\ 3 <= Val(args.steps) /\ Val(args.steps) <= 25
        /\ (IsNone(args.width) \/ Val(args.width) >= 80)
        /\ args.horizontal_projection <= args.length

\* A report with possible = True at the upper step count, for a computed angle.
C2_Witness ==
    /\ Returned("check_installation_feasibility")
    /\ outcome.value.possible
    /\ Val(args.steps) = 25
    /\ Val(args.angle).kind = "atan"

(* C3: every resolution that calculate_steps returns without failure, in   *)
(* each of the four input modes and for every height > 0, has a step count *)
(* of at least 1.                                                          *)
C3_StepCountAtLeastOne ==
    (Returned("calculate_steps") /\ args.height > 0 /\ ~IsNone(outcome.value.steps)) =>
        Val(outcome.value.steps) >= 1

(* C4: every resolution that calculate_steps returns without failure, for  *)
(* a height accepted by input validation and in every input mode, has a    *)
(* riser in [15, 25] and a tread of at least 25.                           *)
C4_StepSpecInvariants ==
    (/\ Returned("calculate_steps")
     /\ 0 < args.height /\ args.height <= 500
     /\ ~IsNone(outcome.value.steps)) =>
        /\ InRange(Val(outcome.value.actual_height), 15, 25)
        /\ Val(outcome.value.actual_width) >= 25

(* C5: whenever calculate_all returns a result whose feasibility report    *)
(* has possible = False, that result carries suggestions and is a normal   *)
(* result: no error field, and its angle, steps, ladder_length and         *)
(* feasibility fields are there.                                           *)
C5_InfeasibleResultCarriesSuggestions ==
    (/\ Returned("calculate_all")
     /\ Has(outcome.value, "feasibility")
     /\ ~outcome.value.feasibility.possible) =>
        /\ Has(outcome.value, "suggestions")
        /\ ~Has(outcome.value, "error")
        /\ {"angle", "steps", "ladder_length"} \subseteq DOMAIN outcome.value

\* An infeasible result for a valid opening, with a best option suggested.
C5_Witness ==
    /\ Returned("calculate_all")
    /\ Has(outcome.value, "feasibility")
    /\ ~outcome.value.feasibility.possible
    /\ Has(outcome.value, "suggestions")
    /\ Has(outcome.value.suggestions, "best_option")

\* A supplied riser or tread is outside its bounds.
ResolverFails ==
    \/ /\ ~IsNone(args.step_height)
       /\ (Val(args.step_height) <= 0 \/ Val(args.step_height) < 15
           \/ Val(args.step_height) > 25)
    \/ /\ ~IsNone(args.step_width)
       /\ (Val(args.step_width) <= 0 \/ Val(args.step_width) < 25)

(* C6: when calculate_steps fails inside calculate_all (a supplied riser   *)
(* or tread is outside its bounds), calculate_all returns an error result  *)
(* with the resolver's message and the suggestions, and no later stage     *)
(* has run: no steps, ladder_length, footprint, feasibility or parts.      *)
C6_ResolverFailureReturnsError ==
    (Called("calculate_all") /\ ValidOpening /\ ResolverFails) =>
        /\ ~outcome.raised
        /\ Has(outcome.value, "error")
        /\ outcome.value.error =
               calculate_steps(calculator, args.height, args.length,
                               args.step_height, args.step_width).value.msg
        /\ Has(outcome.value, "suggestions")
        /\ DOMAIN outcome.value \cap
               {"steps", "ladder_length", "footprint", "feasibility", "parts"} = {}

\* The bounds the opening violates, by the name of their message.
ViolatedBounds ==
    (IF args.height <= 0 THEN {"height_not_positive"} ELSE {})
    \cup (IF args.height > 500 THEN {"height_too_large"} ELSE {})
    \cup (IF args.length <= 0 THEN {"length_not_positive"} ELSE {})
    \cup (IF args.length > 1000 THEN {"length_too_large"} ELSE {})
    \cup (IF ~IsNone(args.width) /\ Val(args.width) < 80 THEN {"width_too_small"} ELSE {})

(* C7: for an opening that fails validation, calculate_all returns a       *)
(* result that holds one error message and nothing else; the message       *)
(* names every violated bound, each once, and no resolver has run.         *)
C7_InvalidOpeningFailsFast ==
    (Called("calculate_all") /\ ~ValidOpening) =>
        /\ ~outcome.raised
        /\ DOMAIN outcome.value = {"error"}
        /\ {outcome.value.error[i] : i \in 1 .. Len(outcome.value.error)} = ViolatedBounds
        /\ Len(outcome.value.error) = Cardinality(ViolatedBounds)

\* A call that violates three bounds at once.
C7_Witness ==
    /\ Returned("calculate_all")
    /\ args.height > 500 /\ args.length <= 0
    /\ ~IsNone(args.width) /\ Val(args.width) < 80
    /\ Len(outcome.value.error) = 3

\* A suggestion set was returned: by suggest_optimal_parameters called on
\* its own, or inside the result of calculate_all.
SuggestionsReturned ==
    \/ Returned("suggest_optimal_parameters")
    \/ Returned("calculate_all") /\ Has(outcome.value, "suggestions")

Suggestions ==
    IF op = "suggest_optimal_parameters" THEN outcome.value ELSE outcome.value.suggestions

AvailableLength ==
    IF op = "suggest_optimal_parameters" THEN args.available_length ELSE args.length

(* C8: in every suggestion set, minimum_option is present only if neither  *)
(* standard_option nor best_option is; best_option and minimum_option      *)
(* never come together; and the set holds at least one option.             *)
C8_MinimumOnlyAlone ==
    SuggestionsReturned =>
        /\ Has(Suggestions, "minimum_option") =>
               ~Has(Suggestions, "standard_option") /\ ~Has(Suggestions, "best_option")
        /\ ~(Has(Suggestions, "best_option") /\ Has(Suggestions, "minimum_option"))
        /\ DOMAIN Suggestions \cap
               {"standard_option", "best_option", "minimum_option"} # {}

\* The minimum option alone, for a height whose riser could be in range but
\* whose projection fits no length on offer.
C8_Witness ==
    /\ Returned("suggest_optimal_parameters")
    /\ Has(Suggestions, "minimum_option")
    /\ \E n \in 3 .. 25 : 15 * n <= args.height /\ args.height <= 25 * n

\* The step counts of [3, 25] whose riser is in [15, 25] and whose
\* projection, at 30 a tread, fits the length.
EligibleCounts(height, length) ==
    {n \in 3 .. 25 : 15 * n <= height /\ height <= 25 * n /\ (n - 1) * 30 <= length}

(* C9: a returned best_option has the largest step count n of [3, 25] for  *)
(* which height / n is in [15, 25] and (n - 1) * 30 fits the available     *)
(* length; its tread is 30 and its projection (n - 1) * 30.                *)
C9_BestIsLargestEligible ==
    (SuggestionsReturned /\ Has(Suggestions, "best_option")) =>
        LET best == Suggestions.best_option
            eligible == EligibleCounts(args.height, AvailableLength)
        IN  /\ best.steps \in eligible
            /\ \A n \in eligible : n <= best.steps
            /\ best.width = 30
            /\ best.projection = (best.steps - 1) * 30

\* A best option chosen among several eligible step counts.
C9_Witness ==
    /\ SuggestionsReturned
    /\ Has(Suggestions, "best_option")
    /\ Cardinality(EligibleCounts(args.height, AvailableLength)) >= 3

\* The integer nearest to height / 20, the even one of two equally near.
NearestCount(height) ==
    CHOOSE n \in 0 .. 26 :
        LET twice == IF height >= 20 * n THEN 2 * (height - 20 * n)
                     ELSE 2 * (20 * n - height)
        IN  twice < 20 \/ (twice = 20 /\ n % 2 = 0)

(* C10: a suggestion set includes standard_option if and only if, with     *)
(* the step count round(height / 20) and the riser height / step count,    *)
(* the projection (step count - 1) * 30 fits the available length and the  *)
(* riser is in [15, 25].                                                   *)
C10_StandardIffFits ==
    SuggestionsReturned =>
        LET n == NearestCount(args.height) IN
        Has(Suggestions, "standard_option") <=>
            /\ (n - 1) * 30 <= AvailableLength
            /\ 15 * n <= args.height /\ args.height <= 25 * n

\* The standard option at a tie of round(height / 20): 2.5 rounds to 2.
C10_Witness ==
    /\ Returned("suggest_optimal_parameters")
    /\ Has(Suggestions, "standard_option")
    /\ args.height = 50
    /\ Suggestions.standard_option.steps = 2

\* The integer nearest to height / riser, the even one of two equally near.
NearestTo(height, riser) ==
    CHOOSE n \in -1 .. 34 :
        LET twice == IF height >= riser * n THEN 2 * (height - riser * n)
                     ELSE 2 * (riser * n - height)
        IN  twice < riser \/ (twice = riser /\ n % 2 = 0)

(* C11: calculate_steps returns a failure (no step count, no riser, no     *)
(* tread) exactly when a supplied riser is <= 0 or outside [15, 25] or a   *)
(* supplied tread is <= 0 or < 25; in every other case with a supplied     *)
(* value it returns round(height / riser) steps with the supplied riser    *)
(* and tread unchanged, the riser 20 when only the tread is given and the  *)
(* tread 30 when only the riser is given.                                  *)
C11_FailsExactlyOutOfBounds ==
    Called("calculate_steps") =>
        LET supplied == ~IsNone(args.step_height) \/ ~IsNone(args.step_width)
            riser == IF IsNone(args.step_height) THEN 20 ELSE Val(args.step_height)
            tread == IF IsNone(args.step_width) THEN 30 ELSE Val(args.step_width)
        IN  /\ supplied => ~outcome.raised
            /\ ~outcome.raised =>
                  /\ IsNone(outcome.value.steps) <=> ResolverFails
                  /\ IsNone(outcome.value.steps) =>
                        /\ IsNone(outcome.value.actual_height)
                        /\ IsNone(outcome.value.actual_width)
                  /\ (supplied /\ ~IsNone(outcome.value.steps)) =>
                        /\ Val(outcome.value.steps) = NearestTo(args.height, riser)
                        /\ Val(outcome.value.actual_height) = Rat(riser, 1)
                        /\ Val(outcome.value.actual_width) = tread

\* Both values supplied and in bounds, at a tie of round: 2.5 rounds to 2.
C11_Witness ==
    /\ Returned("calculate_steps")
    /\ args.step_height = Some(20) /\ args.step_width = Some(25)
    /\ args.height = 50
    /\ Val(outcome.value.steps) = 2

(* C12: calculate_all is deterministic and leaves no hidden state: after   *)
(* any sequence of calls on the shared instance, a call returns what the   *)
(* same inputs return on a freshly constructed instance, so two calls with *)
(* identical inputs return identical results, and no call changes the      *)
(* instance's configuration constants.                                     *)
C12_NoHiddenState ==
    /\ calculator = LadderCalculator
    /\ Called("calculate_all") =>
          outcome = calculate_all(LadderCalculator, args.height, args.length,
                                  args.width, args.angle, args.step_height,
                                  args.step_width, args.ladder_type)

\* A call with a riser override has returned and the configuration is intact.
C12_Witness ==
    /\ Returned("calculate_all")
    /\ args.step_height = Some(26)
    /\ calculator.standard_step_height = 20
    /\ calculator = LadderCalculator

(* C13: for every layout (straight, U-shaped, L-shaped, unknown) and every *)
(* fixed tread width > 0, the horizontal projection of                     *)
(* calculate_ladder_footprint is non-decreasing in the step count: for     *)
(* step counts 1 <= a <= b, projection(a) <= projection(b).                *)
C13_ProjectionMonotone ==
    (Called("calculate_ladder_footprint") /\ args.steps >= 1 /\ args.step_width > 0) =>
        /\ Has(outcome.value, "horizontal_projection")
        /\ \A b \in args.steps .. MaxFootprintSteps :
              LET larger == calculate_ladder_footprint(calculator, b, args.step_width,
                                                       args.ladder_type)
              IN  /\ Has(larger, "horizontal_projection")
                  /\ outcome.value.horizontal_projection <= larger.horizontal_projection

\* U-shaped, 3 steps: one step per flight, the same projection as 2 steps.
C13_Witness ==
    /\ Returned("calculate_ladder_footprint")
    /\ args.ladder_type = 2 /\ args.steps = 3 /\ args.step_width = 30
    /\ outcome.value.horizontal_projection = 100
    /\ calculate_ladder_footprint(calculator, 2, 30, 2).horizontal_projection = 100
    /\ calculate_ladder_footprint(calculator, 4, 30, 2).horizontal_projection = 160

\* No hard check of check_installation_feasibility is violated by the arguments.
NoHardCheckViolated ==
    /\ ~IsNone(args.angle) /\ AngleInRange(Val(args.angle))
    /\ ~IsNone(args.step_height) /\ InRange(Val(args.step_height), 15, 25)
    /\ ~IsNone(args.step_width) /\ Val(args.step_width) >= 25
    /\ ~IsNone(args.steps) /\ 3 <= Val(args.steps) /\ Val(args.steps) <= 25
    /\ (IsNone(args.width) \/ Val(args.width) >= 80)
    /\ args.horizontal_projection <= args.length

\* calculate_all(270, 400, 100), straight, no overrides.
IsExample1 ==
    /\ Called("calculate_all")
    /\ args.height = 270 /\ args.length = 400 /\ args.width = Some(100)
    /\ IsNone(args.angle) /\ IsNone(args.step_height) /\ IsNone(args.step_width)
    /\ args.ladder_type = 1

(* C14: check_installation_feasibility returns possible = True with an     *)
(* empty issues list whenever no hard check is violated (angle in          *)
(* [30, 45], riser in [15, 25], tread >= 25, 3 to 25 steps, width absent   *)
(* or >= 80, projection <= length); so calculate_all(270, 400, 100),       *)
(* straight, no overrides, resolves to 14 steps of tread 30 with           *)
(* projection 390 and is reported possible.                                *)
C14_NoViolationImpliesPossible ==
    /\ (Called("check_installation_feasibility") /\ NoHardCheckViolated) =>
          /\ ~outcome.raised
          /\ outcome.value.possible
          /\ outcome.value.issues = <<>>
    /\ IsExample1 =>
          /\ ~outcome.raised
          /\ outcome.value.steps.count = 14
          /\ outcome.value.steps.actual_height = Some(Rat(1929, 100))
          /\ outcome.value.steps.actual_width = Some(30)
          /\ outcome.value.footprint.horizontal_projection = 390
          /\ outcome.value.feasibility.possible
          /\ outcome.value.feasibility.issues = <<>>

\* Every hard check passes at its limit: 3 steps, width 80, projection = length.
C14_Witness ==
    /\ Returned("check_installation_feasibility")
    /\ NoHardCheckViolated
    /\ Val(args.steps) = 3
    /\ args.width = Some(80)
    /\ args.horizontal_projection = args.length
    /\ outcome.value.possible

\* What calculate_steps returns for the arguments of the call of calculate_all.
Resolution ==
    calculate_steps(calculator, args.height, args.length, args.step_height, args.step_width)

\* The call of calculate_all passed validation and resolved a step count.
StepCountResolved ==
    /\ Called("calculate_all")
    /\ validate_inputs(calculator, args.height, args.length, args.width) = <<>>
    /\ ~Resolution.raised
    /\ ~IsNone(Resolution.value.steps)

(* C15: whenever calculate_all resolves a step count, the returned result  *)
(* contains the parts computed from that step count and the layout, also   *)
(* when the feasibility report has possible = False and also when the step *)
(* count is 0; parts is absent only on the two early-return error paths.   *)
C15_ResolvedCountCarriesParts ==
    /\ StepCountResolved =>
          /\ ~outcome.raised
          /\ Has(outcome.value, "parts")
          /\ outcome.value.parts =
                calculate_parts(calculator, Val(Resolution.value.steps), args.ladder_type)
    /\ (Returned("calculate_all") /\ ~Has(outcome.value, "parts")) =>
          Has(outcome.value, "error")

\* The hard check an issue belongs to.
IssueCheck(issue) ==
    CASE issue \in {"angle_undefined", "angle_out_of_range"} -> "angle"
      [] issue \in {"riser_too_low", "riser_too_high"} -> "riser"
      [] issue = "tread_too_narrow" -> "tread"
      [] issue = "too_few_steps" -> "fewer_than_3"
      [] issue = "too_many_steps" -> "more_than_25"
      [] issue = "opening_too_narrow" -> "width"
      [] issue = "does_not_fit_length" -> "projection"
      [] OTHER -> "precondition"

\* <<check>> when the check is violated, nothing otherwise.
When(violated, check) == IF violated THEN <<check>> ELSE <<>>

\* The hard checks the arguments violate, in the order of the claim.
ViolatedChecks ==
    When(IsNone(args.angle) \/ ~AngleInRange(Val(args.angle)), "angle")
    \o When(~InRange(Val(args.step_height), 15, 25), "riser")
    \o When(Val(args.step_width) < 25, "tread")
    \o When(Val(args.steps) < 3, "fewer_than_3")
    \o When(Val(args.steps) > 25, "more_than_25")
    \o When(~IsNone(args.width) /\ Val(args.width) < 80, "width")
    \o When(args.horizontal_projection > args.length, "projection")

\* The step count is unresolved or zero, or riser or tread is unresolved or
\* not positive.
PreconditionFails ==
    \/ IsNone(args.steps) \/ Val(args.steps) = 0
    \/ IsNone(args.step_width) \/ Val(args.step_width) <= 0
    \/ IsNone(args.step_height) \/ RLe(Val(args.step_height), Rat(0, 1))

(* C16: check_installation_feasibility does not short-circuit its hard     *)
(* checks: when the two pre-conditions hold, issues holds exactly one      *)
(* entry per violated hard check, in the fixed order angle, riser, tread,  *)
(* fewer than 3 steps, more than 25 steps, opening width, projection       *)
(* against length; when the step count is unresolved or zero, or riser or  *)
(* tread is unresolved or not positive, the report has exactly one issue,  *)
(* no warnings and possible = False.                                       *)
C16_AllChecksReportedInOrder ==
    Called("check_installation_feasibility") =>
        /\ ~outcome.raised
        /\ PreconditionFails =>
              /\ Len(outcome.value.issues) = 1
              /\ IssueCheck(outcome.value.issues[1]) = "precondition"
              /\ outcome.value.warnings = <<>>
              /\ ~outcome.value.possible
        /\ ~PreconditionFails =>
              [i \in 1 .. Len(outcome.value.issues) |-> IssueCheck(outcome.value.issues[i])]
                  = ViolatedChecks

\* Six hard checks violated at once, all six reported.
C16_Witness ==
    /\ Returned("check_installation_feasibility")
    /\ ~PreconditionFails
    /\ Len(outcome.value.issues) = 6
    /\ ViolatedChecks = <<"angle", "riser", "tread", "fewer_than_3", "width", "projection">>

(* C17: every result of calculate_all with an opening width given and      *)
(* feasibility.possible = True has an opening width of at least the        *)
(* footprint's width_required for the layout (80 straight, 120 U-shaped,   *)
(* 100 L-shaped): a staircase reported installable never needs more width  *)
(* than the opening has.                                                   *)
C17_PossibleFitsRequiredWidth ==
    (/\ Returned("calculate_all")
     /\ ~IsNone(args.width)
     /\ Has(outcome.value, "feasibility")
     /\ outcome.value.feasibility.possible) =>
        /\ Has(outcome.value, "footprint")
        /\ Has(outcome.value.footprint, "width_required")
        /\ Val(args.width) >= outcome.value.footprint.width_required

(* C18: a message with the text of the cancel button, received in any      *)
(* dialogue state (choosing_stair_type, entering_height, entering_length,  *)
(* entering_width), is handled by cancel_handler: the session data is      *)
(* cleared and the session moves to choosing_stair_type.                   *)
C18_CancelReachesCancelHandler ==
    (update.text = Some(CancelText) /\ update.state_before \in DialogueStates) =>
        /\ update.handler = "cancel_handler"
        /\ data = NoData
        /\ state = "choosing_stair_type"

====
